---- MODULE Spec2Model ----
(***************************************************************************)
(* Model of the pose-evaluation commands of ravenML-plugins                *)
(* (rmltraintfkeypoints/core.py: eval, evalpnp, display_geodesic_stats,    *)
(* _display_keypoint_stats) and of the pose scorer they call.              *)
(*                                                                         *)
(* Numbers.  float64 values are modelled as exact rationals [n, d] in      *)
(* lowest terms, extended with the IEEE special values the code can        *)
(* produce: d = 0 stands for +inf (n = 1), -inf (n = -1) and NaN (n = 0).  *)
(* Rounding of the last bits of a float64 is not modelled.  Angles are     *)
(* kept as rational multiples of pi (1 = pi radians), so that arccos of    *)
(* the cosines that occur is exact.                                        *)
(***************************************************************************)
EXTENDS Integers, Sequences, FiniteSets, TLC

VARIABLES
    cmd,                \* the command that runs: "eval", "evalpnp"
    pc,                 \* "loop", "report", "done", "raised"
    exc,                \* the exception that left the command, "none" before
    model,              \* eval: the loaded Keras model [name, grid, channels]
    render_poses,       \* eval: the --render_poses flag
    keypoints,          \* evalpnp: the --keypoints option
    swap_random_percent,\* evalpnp: the --swap_random_percent option
    keypoints_npy,      \* the dataset's keypoints.npy: its rows, as keypoint ids
    meta_keypoints,     \* the number of keypoints each meta_*.json lists
    test_data,          \* the samples of the dataset's test directory, in order
    img_cnt,            \* number of samples whose iteration completed
    errs_pose,          \* rotation errors, one per completed iteration
    errs_position,      \* position errors
    errs_by_keypoint,   \* per-keypoint pixel errors (eval only)
    solver_call,        \* the arrays of the last call of calculate_pose_vectors
    report,             \* what the reporting step printed and computed
    fn,                 \* pure-function harness: the function applied
    fn_in,              \* its arguments
    fn_out              \* its result

vars == <<cmd, pc, exc, model, render_poses, keypoints, swap_random_percent,
          keypoints_npy, meta_keypoints, test_data, img_cnt, errs_pose,
          errs_position, errs_by_keypoint, solver_call, report, fn, fn_in, fn_out>>

evalVars == <<cmd, pc, exc, model, render_poses, keypoints, swap_random_percent,
              keypoints_npy, meta_keypoints, test_data, img_cnt, errs_pose,
              errs_position, errs_by_keypoint, solver_call, report>>

fnVars == <<fn, fn_in, fn_out>>

----------------------------------------------------------------------------
(* Exact rationals with IEEE special values.                               *)

Abs(x) == IF x < 0 THEN -x ELSE x

Sign(x) == IF x < 0 THEN -1 ELSE IF x > 0 THEN 1 ELSE 0

RECURSIVE GCD(_, _)
GCD(a, b) == IF b = 0 THEN a ELSE GCD(b, a % b)

NaN == [n |-> 0, d |-> 0]

Inf == [n |-> 1, d |-> 0]

\* n / d as a float: the quotient in lowest terms, or the IEEE special value
\* of a division by zero.
Rat(n, d) ==
    IF d = 0 THEN [n |-> Sign(n), d |-> 0]
    ELSE LET g == GCD(Abs(n), Abs(d))
         IN  [n |-> (Sign(d) * n) \div g, d |-> Abs(d) \div g]

Int2Num(k) == [n |-> k, d |-> 1]

Zero == Int2Num(0)

IsNaN(x) == x.d = 0 /\ x.n = 0

IsInf(x) == x.d = 0 /\ x.n # 0

IsFinite(x) == x.d > 0

Add(a, b) ==
    IF IsNaN(a) \/ IsNaN(b) THEN NaN
    ELSE IF IsInf(a) /\ IsInf(b) THEN (IF a.n = b.n THEN a ELSE NaN)
    ELSE IF IsInf(a) THEN a
    ELSE IF IsInf(b) THEN b
    ELSE Rat(a.n * b.d + b.n * a.d, a.d * b.d)

Neg(a) == [n |-> -a.n, d |-> a.d]

Sub(a, b) == Add(a, Neg(b))

Mul(a, b) ==
    IF IsNaN(a) \/ IsNaN(b) THEN NaN
    ELSE IF IsInf(a) \/ IsInf(b)
         THEN [n |-> Sign(a.n) * Sign(b.n), d |-> 0]
    ELSE Rat(a.n * b.n, a.d * b.d)

\* IEEE division: x / 0 is +-inf, 0 / 0 and inf / inf are NaN; numpy warns
\* and does not raise.
Div(a, b) ==
    IF IsNaN(a) \/ IsNaN(b) THEN NaN
    ELSE IF IsInf(b) THEN (IF IsInf(a) THEN NaN ELSE Zero)
    ELSE IF b.n = 0 THEN [n |-> Sign(a.n), d |-> 0]
    ELSE IF IsInf(a) THEN [n |-> a.n * Sign(b.n), d |-> 0]
    ELSE Rat(a.n * b.d, a.d * b.n)

\* a < b; every comparison with NaN is false, as in IEEE.
Less(a, b) == a.n * b.d < b.n * a.d

Leq(a, b) == ~IsNaN(a) /\ ~IsNaN(b) /\ ~Less(b, a)

RECURSIVE SumSeq(_)
SumSeq(s) == IF s = <<>> THEN Zero ELSE Add(Head(s), SumSeq(Tail(s)))

HasNaN(s) == \E i \in 1..Len(s) : IsNaN(s[i])

----------------------------------------------------------------------------
(* numpy reductions used by the reporting code.                            *)

\* np.mean: the sum over the count; of an empty array it is 0/0 = NaN (with
\* a RuntimeWarning, no exception).
np_mean(a) == Div(SumSeq(a), Int2Num(Len(a)))

\* A median that takes the middle of the array as it stands, unsorted.
np_median_unsorted(a) ==
    IF a = <<>> \/ HasNaN(a) THEN NaN
    ELSE LET k == Len(a)
         IN  IF k % 2 = 1 THEN a[(k + 1) \div 2]
             ELSE Div(Add(a[k \div 2], a[k \div 2 + 1]), Int2Num(2))

\* np.median: NaN for an empty array or when a NaN is present; otherwise the
\* middle of the sorted array, the mean of the two middle values when the
\* length is even.
np_median(a) ==
    IF a = <<>> \/ HasNaN(a) THEN NaN
    ELSE LET s == SortSeq(a, Less)
             k == Len(s)
         IN  IF k % 2 = 1 THEN s[(k + 1) \div 2]
             ELSE Div(Add(s[k \div 2], s[k \div 2 + 1]), Int2Num(2))

\* np.max of a non-empty array: NaN when a NaN is present, else the largest.
\* (np.max of an empty array raises ValueError: see np_max_raises.)
np_max(a) ==
    IF HasNaN(a) THEN NaN
    ELSE CHOOSE x \in {a[i] : i \in 1..Len(a)} :
            \A j \in 1..Len(a) : ~Less(x, a[j])

np_max_raises(a) == a = <<>>

\* np.degrees on an angle kept in units of pi: x * 180 / pi.
np_degrees(x) == Mul(x, Int2Num(180))

----------------------------------------------------------------------------
(* Vectors, rotations and the pose scorer.                                 *)

\* The exact square root; the model's vectors are chosen with integral norms.
ISqrt(k) == CHOOSE r \in 0..k : r * r = k

\* np.linalg.norm of a 3-vector.
np_linalg_norm(v) == Int2Num(ISqrt(v[1] * v[1] + v[2] * v[2] + v[3] * v[3]))

VecSub(u, v) == <<u[1] - v[1], u[2] - v[2], u[3] - v[3]>>

Identity3 == <<(<<1, 0, 0>>), (<<0, 1, 0>>), (<<0, 0, 1>>)>>

Transpose(m) == [i \in 1..3 |-> [j \in 1..3 |-> m[j][i]]]

MatMul(a, b) ==
    [i \in 1..3 |-> [j \in 1..3 |->
        a[i][1] * b[1][j] + a[i][2] * b[2][j] + a[i][3] * b[3][j]]]

Trace(m) == m[1][1] + m[2][2] + m[3][3]

\* The rotation vectors of the model: angle * axis, kept as the angle th in
\* thirds of pi and an integer direction ax.  They are the twelve rotations
\* of the tetrahedral group: the identity, the half turns about the
\* coordinate axes and the third turns about the cube diagonals.
RotVecs ==
    {[th |-> 0, ax |-> <<0, 0, 0>>]}
    \cup {[th |-> 3, ax |-> a] : a \in {<<1, 0, 0>>, <<0, 1, 0>>, <<0, 0, 1>>}}
    \cup {[th |-> 2, ax |-> <<x, y, z>>] : x \in {-1, 1}, y \in {-1, 1}, z \in {-1, 1}}

\* The quaternions of the model, with components in halves: the 24 Hurwitz
\* units, which cover each of the twelve rotations twice (q and -q).
Quats ==
    {q \in [{"w", "x", "y", "z"} -> -2..2] :
        /\ q.w * q.w + q.x * q.x + q.y * q.y + q.z * q.z = 4
        /\ \/ \A k \in {"w", "x", "y", "z"} : q[k] \in {-1, 1}
           \/ \E k \in {"w", "x", "y", "z"} : q[k] \in {-2, 2}}

\* Rodrigues' formula R = cos(t) I + sin(t) [u]x + (1 - cos(t)) u u^T for the
\* rotation vector t * u, with the three coefficients (over |ax|, |ax|^2 for
\* the unnormalised direction) in halves.
RotvecToMatrix(r) ==
    LET c2 == CASE r.th = 0 -> 2 [] r.th = 2 -> -1 [] r.th = 3 -> -2
        s2 == CASE r.th = 0 -> 0 [] r.th = 2 -> 1 [] r.th = 3 -> 0
        k2 == CASE r.th = 0 -> 0 [] r.th = 2 -> 1 [] r.th = 3 -> 4
        a == r.ax
        K == <<(<<0, -a[3], a[2]>>), (<<a[3], 0, -a[1]>>), (<<-a[2], a[1], 0>>)>>
    IN  [i \in 1..3 |-> [j \in 1..3 |->
            (c2 * Identity3[i][j] + s2 * K[i][j] + k2 * a[i] * a[j]) \div 2]]

\* The rotation matrix of a quaternion, normalised by its squared norm.
QuatToMatrix(q) ==
    LET w == q.w  x == q.x  y == q.y  z == q.z
        N == w * w + x * x + y * y + z * z
    IN  <<(<<(w*w + x*x - y*y - z*z) \div N, (2 * (x*y - w*z)) \div N, (2 * (x*z + w*y)) \div N>>),
          (<<(2 * (x*y + w*z)) \div N, (w*w - x*x + y*y - z*z) \div N, (2 * (y*z - w*x)) \div N>>),
          (<<(2 * (x*z - w*y)) \div N, (2 * (y*z + w*x)) \div N, (w*w - x*x - y*y + z*z) \div N>>)>>

\* clamp(x, lo, hi)
Clamp(x, lo, hi) == IF x < lo THEN lo ELSE IF x > hi THEN hi ELSE x

\* arccos of a cosine given in halves, as a multiple of pi; NaN outside the
\* domain [-1, 1], as numpy's arccos gives.
ArcCos(c2) ==
    CASE c2 = 2 -> Zero
      [] c2 = 1 -> Rat(1, 3)
      [] c2 = 0 -> Rat(1, 2)
      [] c2 = -1 -> Rat(2, 3)
      [] c2 = -2 -> Int2Num(1)
      [] OTHER -> NaN

\* A rotation given as a rotation vector or as a quaternion, as a matrix.
ToMatrix(r) == IF "th" \in DOMAIN r THEN RotvecToMatrix(r) ELSE QuatToMatrix(r)

\* The product without the transpose: R_est . R_true.
RelativeRotationNoTranspose(r_vec, pose) ==
    MatMul(ToMatrix(r_vec), ToMatrix(pose))

\* The relative rotation R_err = R_est^T . R_true.
RelativeRotation(r_vec, pose) ==
    MatMul(Transpose(ToMatrix(r_vec)), ToMatrix(pose))

\* The cosine (trace(R_err) - 1) / 2 of the relative rotation, in halves.
CosineOfError(r_vec, pose) == Trace(RelativeRotation(r_vec, pose)) - 1

\* The angle taken as that of a quaternion's scalar part, 2 * arccos(...).
geodesic_error_doubled(r_vec, pose) ==
    Mul(Int2Num(2), ArcCos(Clamp(CosineOfError(r_vec, pose), -2, 2)))

\* The angle of the estimate alone, the ground truth ignored.
geodesic_error_of_estimate(r_vec, pose) ==
    ArcCos(Clamp(Trace(ToMatrix(r_vec)) - 1, -2, 2))

\* utils.geodesic_error: angle = arccos(clamp((trace(R_err) - 1) / 2, -1, 1)).
geodesic_error(r_vec, pose) == ArcCos(Clamp(CosineOfError(r_vec, pose), -2, 2))

----------------------------------------------------------------------------
(* Bounds and the inputs of the evaluation commands.                       *)

\* The longest test set of eval.
MaxSamples == 3

\* The most meta files evalpnp is run on.
MaxMetaFiles == 2

\* The hard-coded shape of the debugging reshape of eval: (11, 2, 14 * 14).
ReshapeKeypoints == 11

ReshapeGridSide == 14

Min(a, b) == IF a < b THEN a ELSE b

Last(s) == s[Len(s)]

\* Python's a[:k].
Prefix(a, k) == SubSeq(a, 1, Min(k, Len(a)))

SeqsUpTo(S, k) == UNION {[1..m -> S] : m \in 0..k}

QuatIdentity == [w |-> 2, x |-> 0, y |-> 0, z |-> 0]

RotIdentity == [th |-> 0, ax |-> <<0, 0, 0>>]

\* The samples a test set is drawn from.  pose and position are the ground
\* truth of the sample's metadata; solve, r_vec and t_vec are what the pose
\* solver does on the sample's keypoints.
SampleSet ==
    { \* an exact estimate
      [id |-> 1, pose |-> QuatIdentity, position |-> <<0, 0, 2>>,
       solve |-> "ok", r_vec |-> RotIdentity, t_vec |-> <<0, 0, 2>>],
      \* a third of a turn and a quarter of the distance off
      [id |-> 2, pose |-> [w |-> 1, x |-> 1, y |-> 1, z |-> 1], position |-> <<0, 0, 4>>,
       solve |-> "ok", r_vec |-> RotIdentity, t_vec |-> <<0, 0, 3>>],
      \* half a turn off
      [id |-> 3, pose |-> [w |-> 0, x |-> 2, y |-> 0, z |-> 0], position |-> <<0, 3, 4>>,
       solve |-> "ok", r_vec |-> [th |-> 3, ax |-> <<0, 1, 0>>], t_vec |-> <<0, 3, 0>>],
      \* a ground-truth position of norm zero
      [id |-> 4, pose |-> QuatIdentity, position |-> <<0, 0, 0>>,
       solve |-> "ok", r_vec |-> RotIdentity, t_vec |-> <<0, 0, 1>>],
      \* keypoints on which RANSAC finds no consensus
      [id |-> 5, pose |-> QuatIdentity, position |-> <<0, 0, 2>>,
       solve |-> "NoConsensus", r_vec |-> RotIdentity, t_vec |-> <<0, 0, 2>>] }

\* The models eval is run on: name and output shape without the batch axis.
ModelSet ==
    { [name |-> "mobilepose", out_shape |-> <<14, 14, 22>>],
      [name |-> "mobilepose", out_shape |-> <<1, 1, 22>>],
      [name |-> "keypoints", out_shape |-> <<22>>],
      [name |-> "keypoints", out_shape |-> <<4312>>] }

\* The samples evalpnp's meta files are drawn from (it reads pose and
\* keypoints only).
MetaSampleSet == {s \in SampleSet : s.id \in {1, 2, 5}}

NoModel == [name |-> "none", out_shape |-> <<>>]

KeypointsOptions == {3, 4, 5}

SwapPercentOptions == {0, 50, 100}

\* What the solver's estimate can be when the observed keypoints were
\* swapped: any rotation of this set.
SwappedEstimates == {RotIdentity, [th |-> 3, ax |-> <<1, 0, 0>>]}

NoCall == [ref |-> <<>>, obs_rows |-> 0, obs |-> <<>>]

NoReport == [printed |-> <<>>, err_data |-> <<>>]

NoResult == [done |-> FALSE, val |-> <<>>]

IdleFn == fn = "none" /\ fn_in = <<>> /\ fn_out = NoResult

IdleEval ==
    /\ cmd = "none" /\ pc = "idle" /\ exc = "none"
    /\ model = NoModel /\ render_poses = FALSE
    /\ keypoints = 0 /\ swap_random_percent = 0
    /\ keypoints_npy = <<>> /\ meta_keypoints = 0 /\ test_data = <<>>
    /\ img_cnt = 0
    /\ errs_pose = <<>> /\ errs_position = <<>> /\ errs_by_keypoint = <<>>
    /\ solver_call = NoCall /\ report = NoReport

----------------------------------------------------------------------------
(* eval: set-up (lines 119-142).                                           *)

nb_keypoints_of(m) ==
    IF m.name = "mobilepose" THEN Last(m.out_shape) \div 2
    ELSE m.out_shape[1] \div 2

\* ref_points = np.load(keypoints.npy).reshape((-1, 3))[:nb_keypoints]
ref_points_eval == Prefix(keypoints_npy, nb_keypoints_of(model))

\* The rows of one sample's kps after lines 144-154: for mobilepose one
\* guess per grid cell and keypoint, otherwise one row per keypoint.
KpsRows(m) ==
    IF m.name = "mobilepose"
    THEN m.out_shape[1] * m.out_shape[2] * (Last(m.out_shape) \div 2)
    ELSE m.out_shape[1] \div 2

\* kps.reshape((11, 2, 14 * 14)) raises ValueError for any other size.
ReshapeRaises(rows) ==
    rows * 2 # ReshapeKeypoints * 2 * (ReshapeGridSide * ReshapeGridSide)

\* The rows of truth_batch['keypoints'][i]: metadata["keypoints"][:nb_keypoints].
KpsTrueRows(m) == Min(nb_keypoints_of(m), meta_keypoints)

\* The solver without the check of the number of correspondences: it
\* returns whatever estimate the keypoints give.
calculate_pose_vectors_unchecked(ref, s) ==
    IF s.solve # "ok" THEN [exc |-> s.solve, r_vec |-> s.r_vec, t_vec |-> s.t_vec]
    ELSE [exc |-> "none", r_vec |-> s.r_vec, t_vec |-> s.t_vec]

\* utils.calculate_pose_vectors: what the solver does with the arrays it is
\* given: fewer than four correspondences cannot be solved; otherwise the
\* sample's keypoints decide.
calculate_pose_vectors(ref, s) ==
    IF Len(ref) < 4 THEN [exc |-> "InsufficientCorrespondences", r_vec |-> s.r_vec, t_vec |-> s.t_vec]
    ELSE IF s.solve # "ok" THEN [exc |-> s.solve, r_vec |-> s.r_vec, t_vec |-> s.t_vec]
    ELSE [exc |-> "none", r_vec |-> s.r_vec, t_vec |-> s.t_vec]

\* np.linalg.norm(position - t_vec) / np.linalg.norm(position)
PositionError(position, t_vec) ==
    Div(np_linalg_norm(VecSub(position, t_vec)), np_linalg_norm(position))

\* Element e (from 0) of one sample's prediction, flattened in row-major
\* order, as the keypoint, the coordinate and the grid cell it holds.  For
\* mobilepose the tensor was transposed to (channel, row, column) at line
\* 148, and the channels are (keypoint, coordinate) as the reshape
\* (11, 2, 14 * 14) of line 161 reads them; otherwise the output is the
\* vector of the keypoints' coordinates.
KpsElement(m, e) ==
    IF m.name = "mobilepose"
    THEN LET cells == m.out_shape[1] * m.out_shape[2]
             c == e \div cells
         IN  [kp |-> c \div 2, coord |-> c % 2, cell |-> e % cells]
    ELSE [kp |-> e \div 2, coord |-> e % 2, cell |-> 0]

\* Row r (from 0) of kps after the reshape to (-1, 2) of lines 150 and 153.
KpsRow(m, r) == <<KpsElement(m, 2 * r), KpsElement(m, 2 * r + 1)>>

\* [np.linalg.norm(kp_true - kp) for kp, kp_true in zip(kps, kps_true)]: one
\* entry per pair of rows, kept as the row of kps and the keypoint (from 0)
\* whose ground truth it is compared with.
KeypointErrs(m, true_rows) ==
    [k \in 1..Min(KpsRows(m), true_rows) |->
        [kp |-> KpsRow(m, k - 1), kp_true |-> k - 1]]

\* errs_position.append(...) of lines 181-183, forgotten.
RecordPositionSkipped(errs, position, t_vec) == errs

\* errs_position.append(norm(position - t_vec) / norm(position))
RecordPosition(errs, position, t_vec) ==
    Append(errs, PositionError(position, t_vec))

\* The exception one iteration of eval's loop ends with, "none" if it
\* completes.
EvalIterationExc(m, s) ==
    IF ReshapeRaises(KpsRows(m)) THEN "ValueError"
    ELSE calculate_pose_vectors(ref_points_eval, s).exc

\* The rows of keypoints.npy in the datasets eval is run on: the eleven
\* keypoints the models were trained on, or three only.
EvalDatasetRows == {11, 3}

InitEval ==
    /\ cmd = "eval"
    /\ model \in ModelSet
    /\ render_poses \in BOOLEAN
    /\ keypoints = 0 /\ swap_random_percent = 0
    /\ \E rows \in EvalDatasetRows : keypoints_npy = [i \in 1..rows |-> i]
    /\ meta_keypoints = 11
    /\ test_data \in SeqsUpTo(SampleSet, MaxSamples)
    /\ pc = IF test_data = <<>> THEN "report" ELSE "loop"
    /\ exc = "none"
    /\ img_cnt = 0
    /\ errs_pose = <<>> /\ errs_position = <<>> /\ errs_by_keypoint = <<>>
    /\ solver_call = NoCall /\ report = NoReport

\* One iteration of the loop over the test samples (lines 157-204) that
\* runs to its end.
EvalIterate ==
    /\ cmd = "eval" /\ pc = "loop"
    /\ LET s == test_data[img_cnt + 1]
           rows == KpsRows(model)
           res == calculate_pose_vectors(ref_points_eval, s)
       IN  /\ EvalIterationExc(model, s) = "none"
           /\ solver_call' = [ref |-> ref_points_eval, obs_rows |-> rows, obs |-> <<>>]
           /\ errs_pose' = Append(errs_pose, geodesic_error(res.r_vec, s.pose))
           /\ errs_position' = RecordPosition(errs_position, s.position, res.t_vec)
           /\ errs_by_keypoint' =
                 Append(errs_by_keypoint, KeypointErrs(model, KpsTrueRows(model)))
           /\ img_cnt' = img_cnt + 1
           /\ pc' = IF render_poses \/ img_cnt + 1 = Len(test_data)
                    THEN "report" ELSE "loop"
    /\ UNCHANGED <<cmd, exc, model, render_poses, keypoints, swap_random_percent,
                   keypoints_npy, meta_keypoints, test_data, report>>
    /\ UNCHANGED fnVars

\* One iteration that raises: nothing in eval catches the exception, so it
\* leaves the command.
EvalIterateRaises ==
    /\ cmd = "eval" /\ pc = "loop"
    /\ LET s == test_data[img_cnt + 1]
       IN  /\ EvalIterationExc(model, s) # "none"
           /\ exc' = EvalIterationExc(model, s)
           /\ solver_call' =
                 IF ReshapeRaises(KpsRows(model)) THEN solver_call
                 ELSE [ref |-> ref_points_eval, obs_rows |-> KpsRows(model), obs |-> <<>>]
    /\ pc' = "raised"
    /\ UNCHANGED <<cmd, model, render_poses, keypoints, swap_random_percent,
                   keypoints_npy, meta_keypoints, test_data, img_cnt, errs_pose,
                   errs_position, errs_by_keypoint, report>>
    /\ UNCHANGED fnVars

----------------------------------------------------------------------------
(* The reporting step (lines 208-223, 272-312).                            *)

\* The mean, median and max of one error field.
Stats(a) == [mean |-> np_mean(a), median |-> np_median(a), max |-> np_max(a)]

\* The stats of an array that default to NaN when the array is empty.
StatsOrNaN(a) ==
    IF a = <<>> THEN [mean |-> NaN, median |-> NaN, max |-> NaN] ELSE Stats(a)

\* display_geodesic_stats with a maximum that does not raise on an empty
\* array.
display_geodesic_stats_nan(pose_errs, position_errs) ==
    [exc |-> "none", printed |-> <<StatsOrNaN(pose_errs), StatsOrNaN(position_errs)>>]

\* display_geodesic_stats with the position section computed from the
\* rotation errors.
display_geodesic_stats_pose_twice(pose_errs, position_errs) ==
    IF np_max_raises(pose_errs)
    THEN [exc |-> "ValueError", printed |-> <<>>]
    ELSE IF np_max_raises(position_errs)
    THEN [exc |-> "ValueError", printed |-> <<Stats(pose_errs)>>]
    ELSE [exc |-> "none", printed |-> <<Stats(pose_errs), Stats(pose_errs)>>]

\* display_geodesic_stats: the stats of each section are computed before
\* the section is printed, and np.max of an empty array raises ValueError.
\* printed is the sections that were printed: the geodesic stats, then the
\* position stats.  (The third section, of the sum of the two, prints only.)
display_geodesic_stats(pose_errs, position_errs) ==
    IF np_max_raises(pose_errs)
    THEN [exc |-> "ValueError", printed |-> <<>>]
    ELSE IF np_max_raises(position_errs)
    THEN [exc |-> "ValueError", printed |-> <<Stats(pose_errs)>>]
    ELSE [exc |-> "none", printed |-> <<Stats(pose_errs), Stats(position_errs)>>]

\* _display_keypoint_stats: errs.shape[1] of np.array([]) raises IndexError.
display_keypoint_stats_exc(errs) == IF errs = <<>> THEN "IndexError" ELSE "none"

\* eval's err_data (lines 214-221): position stats as they are, rotation
\* stats in degrees.
ErrData(pose_errs, position_errs) ==
    [position_err_mean |-> np_mean(position_errs),
     position_err_median |-> np_median(position_errs),
     position_err_max |-> np_max(position_errs),
     pose_err_mean |-> np_degrees(np_mean(pose_errs)),
     pose_err_median |-> np_degrees(np_median(pose_errs)),
     pose_err_max |-> np_degrees(np_max(pose_errs))]

\* The exception eval's reporting step ends with, "none" if it completes.
EvalReportExc ==
    IF display_keypoint_stats_exc(errs_by_keypoint) # "none"
    THEN display_keypoint_stats_exc(errs_by_keypoint)
    ELSE display_geodesic_stats(errs_pose, errs_position).exc

\* Lines 208-223 running to the end.
EvalReport ==
    /\ cmd = "eval" /\ pc = "report"
    /\ EvalReportExc = "none"
    /\ report' = [printed |-> display_geodesic_stats(errs_pose, errs_position).printed,
                  err_data |-> <<ErrData(errs_pose, errs_position)>>]
    /\ pc' = "done"
    /\ UNCHANGED <<cmd, exc, model, render_poses, keypoints, swap_random_percent,
                   keypoints_npy, meta_keypoints, test_data, img_cnt, errs_pose,
                   errs_position, errs_by_keypoint, solver_call>>
    /\ UNCHANGED fnVars

\* Lines 208-223 raising.
EvalReportRaises ==
    /\ cmd = "eval" /\ pc = "report"
    /\ EvalReportExc # "none"
    /\ exc' = EvalReportExc
    /\ report' = [printed |->
                     IF display_keypoint_stats_exc(errs_by_keypoint) # "none" THEN <<>>
                     ELSE display_geodesic_stats(errs_pose, errs_position).printed,
                  err_data |-> <<>>]
    /\ pc' = "raised"
    /\ UNCHANGED <<cmd, model, render_poses, keypoints, swap_random_percent,
                   keypoints_npy, meta_keypoints, test_data, img_cnt, errs_pose,
                   errs_position, errs_by_keypoint, solver_call>>
    /\ UNCHANGED fnVars

----------------------------------------------------------------------------
(* evalpnp (lines 232-272).                                                *)

\* The shapes of the datasets evalpnp is run on: the rows of keypoints.npy
\* and the keypoints listed by each meta file.
DatasetShapes == {<<4, 4>>, <<4, 3>>}

\* rand_swap_amt = int(swap_random_percent / 100 * nb_keypoints)
rand_swap_amt == (swap_random_percent * keypoints) \div 100

\* kps = np.array(metadata['keypoints'], np.float32) * 1024: row i holds the
\* coordinates of keypoint i.
MetaKps == [i \in 1..meta_keypoints |-> i]

\* random.sample(list(range(nb_keypoints)), k): the sequences of k distinct
\* indices; the call raises ValueError when k exceeds the population.
RandomSamples(nb, k) ==
    {sw \in [1..k -> 0..(nb - 1)] : \A i, j \in 1..k : i # j => sw[i] # sw[j]}

\* for a, b in zip(swaps[::2], swaps[1::2]): kps[a], kps[b] = kps[b], kps[a]
\* on a 2-D numpy array.  The right-hand side is a pair of views of rows b
\* and a; row a is overwritten with row b first, and row b is then assigned
\* from the view of row a, which by now shows the former row b.
RECURSIVE SwapRows(_, _)
SwapRows(kps, swaps) ==
    IF Len(swaps) < 2 THEN kps
    ELSE LET a == swaps[1] + 1
             b == swaps[2] + 1
             after_a == [kps EXCEPT ![a] = kps[b]]
             after_b == [after_a EXCEPT ![b] = after_a[a]]
         IN  SwapRows(after_b, SubSeq(swaps, 3, Len(swaps)))

\* The swap loop of lines 257-260 as its effect on the two arrays in scope,
\* with the writes aimed at the reference points (where the indices allow).
SwapStepOnReference(ref, kps, swaps) ==
    [ref_points |-> IF \A i \in 1..Len(swaps) : swaps[i] < Len(ref)
                    THEN SwapRows(ref, swaps) ELSE ref,
     kps |-> kps]

\* The swap loop of lines 257-260 as its effect on the two arrays in scope:
\* it assigns rows of kps, the array just built from this meta file.
SwapStep(ref, kps, swaps) == [ref_points |-> ref, kps |-> SwapRows(kps, swaps)]

\* An index of the swap list outside the rows of kps raises IndexError.
SwapIndexError(swaps) == \E i \in 1..Len(swaps) : swaps[i] >= meta_keypoints

\* The observed keypoints handed over without the slice.
PnpObservedUnsliced(swaps) == SwapStep(keypoints_npy, MetaKps, swaps).kps

\* The observed keypoints handed to the solver: kps[:nb_keypoints].
PnpObserved(swaps) == Prefix(SwapStep(keypoints_npy, MetaKps, swaps).kps, keypoints)

\* The reference points handed to the solver: ref_points[:nb_keypoints].
PnpReference == Prefix(keypoints_npy, keypoints)

\* The exception one iteration of evalpnp's loop ends with under the given
\* choice of swaps, "none" if it completes.
PnpIterationExc(s, swaps) ==
    IF SwapIndexError(swaps) THEN "IndexError"
    ELSE calculate_pose_vectors(PnpReference, s).exc

InitPnp ==
    /\ cmd = "evalpnp"
    /\ model = NoModel /\ render_poses = FALSE
    /\ keypoints \in KeypointsOptions
    /\ swap_random_percent \in SwapPercentOptions
    /\ \E shape \in DatasetShapes :
          /\ keypoints_npy = [i \in 1..shape[1] |-> i]
          /\ meta_keypoints = shape[2]
    /\ test_data \in SeqsUpTo(MetaSampleSet, MaxMetaFiles)
    /\ pc = IF test_data = <<>> THEN "report" ELSE "loop"
    /\ exc = "none"
    /\ img_cnt = 0
    /\ errs_pose = <<>> /\ errs_position = <<Zero>> /\ errs_by_keypoint = <<>>
    /\ solver_call = NoCall /\ report = NoReport

\* One iteration of the loop over the meta files (lines 250-266) that runs
\* to its end.  img_cnt counts the completed iterations.
PnpIterate ==
    /\ cmd = "evalpnp" /\ pc = "loop"
    /\ 2 * rand_swap_amt <= keypoints
    /\ \E swaps \in RandomSamples(keypoints, 2 * rand_swap_amt) :
          LET s == test_data[img_cnt + 1]
              obs == PnpObserved(swaps)
          IN  /\ PnpIterationExc(s, swaps) = "none"
              /\ keypoints_npy' = SwapStep(keypoints_npy, MetaKps, swaps).ref_points
              /\ solver_call' = [ref |-> PnpReference, obs_rows |-> Len(obs), obs |-> obs]
              /\ \E r_vec \in (IF obs = Prefix(MetaKps, keypoints)
                               THEN {s.r_vec} ELSE SwappedEstimates) :
                    errs_pose' = Append(errs_pose, geodesic_error(r_vec, s.pose))
    /\ img_cnt' = img_cnt + 1
    /\ pc' = IF img_cnt + 1 = Len(test_data) THEN "report" ELSE "loop"
    /\ UNCHANGED <<cmd, exc, model, render_poses, keypoints, swap_random_percent,
                   meta_keypoints, test_data, errs_position,
                   errs_by_keypoint, report>>
    /\ UNCHANGED fnVars

\* One iteration that raises: random.sample asked for more indices than
\* there are keypoints (ValueError), a swap index outside kps (IndexError),
\* or the solver failing.
PnpIterateRaises ==
    /\ cmd = "evalpnp" /\ pc = "loop"
    /\ \/ /\ 2 * rand_swap_amt > keypoints
          /\ exc' = "ValueError"
          /\ UNCHANGED solver_call
       \/ /\ 2 * rand_swap_amt <= keypoints
          /\ \E swaps \in RandomSamples(keypoints, 2 * rand_swap_amt) :
                LET s == test_data[img_cnt + 1]
                    obs == PnpObserved(swaps)
                IN  /\ PnpIterationExc(s, swaps) # "none"
                    /\ exc' = PnpIterationExc(s, swaps)
                    /\ solver_call' =
                          IF SwapIndexError(swaps) THEN solver_call
                          ELSE [ref |-> PnpReference, obs_rows |-> Len(obs), obs |-> obs]
    /\ pc' = "raised"
    /\ UNCHANGED <<cmd, model, render_poses, keypoints, swap_random_percent,
                   keypoints_npy, meta_keypoints, test_data, img_cnt, errs_pose,
                   errs_position, errs_by_keypoint, report>>
    /\ UNCHANGED fnVars

\* Line 272 running to the end.
PnpReport ==
    /\ cmd = "evalpnp" /\ pc = "report"
    /\ display_geodesic_stats(errs_pose, errs_position).exc = "none"
    /\ report' = [printed |-> display_geodesic_stats(errs_pose, errs_position).printed,
                  err_data |-> <<>>]
    /\ pc' = "done"
    /\ UNCHANGED <<cmd, exc, model, render_poses, keypoints, swap_random_percent,
                   keypoints_npy, meta_keypoints, test_data, img_cnt, errs_pose,
                   errs_position, errs_by_keypoint, solver_call>>
    /\ UNCHANGED fnVars

\* Line 272 raising.
PnpReportRaises ==
    /\ cmd = "evalpnp" /\ pc = "report"
    /\ display_geodesic_stats(errs_pose, errs_position).exc # "none"
    /\ exc' = display_geodesic_stats(errs_pose, errs_position).exc
    /\ report' = [printed |-> display_geodesic_stats(errs_pose, errs_position).printed,
                  err_data |-> <<>>]
    /\ pc' = "raised"
    /\ UNCHANGED <<cmd, model, render_poses, keypoints, swap_random_percent,
                   keypoints_npy, meta_keypoints, test_data, img_cnt, errs_pose,
                   errs_position, errs_by_keypoint, solver_call>>
    /\ UNCHANGED fnVars

----------------------------------------------------------------------------
(* The evaluation commands as a state machine.                             *)

Init == (InitEval \/ InitPnp) /\ IdleFn

Next ==
    \/ EvalIterate
    \/ EvalIterateRaises
    \/ EvalReport
    \/ EvalReportRaises
    \/ PnpIterate
    \/ PnpIterateRaises
    \/ PnpReport
    \/ PnpReportRaises

Spec == Init /\ [][Next]_vars

----------------------------------------------------------------------------
(* The scorer on its own: geodesic_error applied to every pair of          *)
(* rotations of the model, in either representation.                       *)

Rotations == RotVecs \cup Quats

InitGeo ==
    /\ IdleEval
    /\ fn = "geodesic_error"
    /\ fn_in \in [a : Rotations, b : Rotations]
    /\ fn_out = NoResult

\* err = utils.geodesic_error(r_vec, truth_batch['pose'][i])
ApplyGeodesicError ==
    /\ fn = "geodesic_error" /\ ~fn_out.done
    /\ fn_out' = [done |-> TRUE, val |-> geodesic_error(fn_in.a, fn_in.b)]
    /\ UNCHANGED <<fn, fn_in>>
    /\ UNCHANGED evalVars

NextGeo == ApplyGeodesicError

SpecGeo == InitGeo /\ [][NextGeo]_vars

----------------------------------------------------------------------------
(* The aggregator on its own: display_geodesic_stats and eval's err_data   *)
(* applied to sequences of error records.                                  *)

\* The longest sequence of error records.
MaxErrs == 3

PoseErrValues == {Rat(1, 10), Rat(3, 10), Rat(1, 2)}

PositionErrValues == {Rat(1, 5), Rat(2, 5)}

\* The sequences of k error records, as the two parallel arrays.
ErrRecords(k) ==
    {[errs_pose |-> a, errs_position |-> b] :
        a \in [1..k -> PoseErrValues], b \in [1..k -> PositionErrValues]}

InitAgg ==
    /\ IdleEval
    /\ fn \in {"display_geodesic_stats", "err_data"}
    /\ fn_in \in UNION {ErrRecords(k) : k \in 0..MaxErrs}
    /\ fn_out = NoResult

\* display_geodesic_stats('Model Preds', np.array(errs_pose), np.array(errs_position))
ApplyDisplayGeodesicStats ==
    /\ fn = "display_geodesic_stats" /\ ~fn_out.done
    /\ fn_out' = [done |-> TRUE,
                  val |-> display_geodesic_stats(fn_in.errs_pose, fn_in.errs_position)]
    /\ UNCHANGED <<fn, fn_in>>
    /\ UNCHANGED evalVars

\* err_data = {...} (lines 214-221); np.max of an empty list raises ValueError.
ApplyErrData ==
    /\ fn = "err_data" /\ ~fn_out.done
    /\ fn_out' = [done |-> TRUE,
                  val |-> IF np_max_raises(fn_in.errs_position) \/ np_max_raises(fn_in.errs_pose)
                          THEN [exc |-> "ValueError", err_data |-> <<>>]
                          ELSE [exc |-> "none",
                                err_data |-> <<ErrData(fn_in.errs_pose, fn_in.errs_position)>>]]
    /\ UNCHANGED <<fn, fn_in>>
    /\ UNCHANGED evalVars

NextAgg == ApplyDisplayGeodesicStats \/ ApplyErrData

SpecAgg == InitAgg /\ [][NextAgg]_vars

----------------------------------------------------------------------------
(* The crop transform on its own: a ground-truth keypoint mapped from the  *)
(* full image into the crop as eval does, and back by the solver's crop    *)
(* correction.                                                             *)

\* Python's a // b on ints.
FloorDiv(a, b) == a \div b

\* The forward transform scaled by cropsize // 2, as line 154 scales the
\* predictions.
CropForwardHalfScale(p, centroid, bbox_size, cropsize) ==
    Add(Mul(Div(Sub(p, centroid), bbox_size), Int2Num(FloorDiv(cropsize, 2))),
        Int2Num(FloorDiv(cropsize, 2)))

\* Line 155-156, for one coordinate of one keypoint:
\* (keypoints - centroid) / bbox_size * cropsize + (cropsize // 2)
CropForward(p, centroid, bbox_size, cropsize) ==
    Add(Mul(Div(Sub(p, centroid), bbox_size), Int2Num(cropsize)),
        Int2Num(FloorDiv(cropsize, 2)))

\* The solver's crop correction, for one coordinate:
\* full_xy = crop_local_xy * (bbox_size / cropsize) + (centroid - bbox_size / 2)
CropBackward(q, centroid, bbox_size, cropsize) ==
    Add(Mul(q, Div(bbox_size, Int2Num(cropsize))),
        Sub(centroid, Div(bbox_size, Int2Num(2))))

CropSizes == {4, 5, 224, 225}

CropPoints == {<<Int2Num(y), Int2Num(x)>> : y \in {0, 300}, x \in {10, 512}}

CropCentroids == {<<Int2Num(256), Int2Num(256)>>, <<Rat(601, 2), Int2Num(40)>>}

CropBoxSizes == {Int2Num(100), Rat(1125, 4)}

InitCrop ==
    /\ IdleEval
    /\ fn = "crop_round_trip"
    /\ fn_in \in [p : CropPoints, centroid : CropCentroids,
                  bbox_size : CropBoxSizes, cropsize : CropSizes]
    /\ fn_out = NoResult

\* Forward for both coordinates of the keypoint.
ApplyCropForward ==
    /\ fn = "crop_round_trip" /\ ~fn_out.done
    /\ fn_out' = [done |-> FALSE,
                  val |-> [i \in 1..2 |->
                      CropForward(fn_in.p[i], fn_in.centroid[i], fn_in.bbox_size, fn_in.cropsize)]]
    /\ fn_out.val = <<>>
    /\ UNCHANGED <<fn, fn_in>>
    /\ UNCHANGED evalVars

\* Backward for both coordinates of the crop-local keypoint.
ApplyCropBackward ==
    /\ fn = "crop_round_trip" /\ ~fn_out.done
    /\ fn_out.val # <<>>
    /\ fn_out' = [done |-> TRUE,
                  val |-> [i \in 1..2 |->
                      CropBackward(fn_out.val[i], fn_in.centroid[i], fn_in.bbox_size, fn_in.cropsize)]]
    /\ UNCHANGED <<fn, fn_in>>
    /\ UNCHANGED evalVars

NextCrop == ApplyCropForward \/ ApplyCropBackward

SpecCrop == InitCrop /\ [][NextCrop]_vars

----------------------------------------------------------------------------
(* Properties.                                                             *)

\* The failures of the solver and the scorer on one sample.
SampleFailures ==
    {"InsufficientCorrespondences", "DegenerateGeometry", "NoConsensus",
     "DegenerateReference"}

\* The errors of sample s as eval scores them.
PoseErrOf(s) == geodesic_error(s.r_vec, s.pose)

PositionErrOf(s) == PositionError(s.position, s.t_vec)

\* C1: in eval a solver or scorer failure on one sample only skips that
\* sample: it never leaves the command, so the run still reaches the
\* reporting step.
C1_SampleFailureSkipped ==
    cmd = "eval" => ~(pc = "raised" /\ exc \in SampleFailures)

\* The reporting step has run on a test set without samples.
EmptyRun == cmd \in {"eval", "evalpnp"} /\ test_data = <<>> /\ pc # "report"

\* C2 (as claimed): on an empty sequence of error records the aggregation
\* fails with NoSamples or returns a no-data sentinel.
C2_NoSamplesOrSentinel ==
    EmptyRun => (exc = "NoSamples" \/ report.printed = <<"no data">>)

\* C2 (amended): on an empty sequence of error records the reporting step
\* raises a generic exception (IndexError from _display_keypoint_stats in
\* eval, ValueError from np.max in evalpnp) before it prints or computes any
\* summary, so no summary with NaN or zero values is produced.
C2_EmptyRaises ==
    EmptyRun =>
        /\ pc = "raised"
        /\ exc = (IF cmd = "eval" THEN "IndexError" ELSE "ValueError")
        /\ report.printed = <<>>
        /\ report.err_data = <<>>

C2_Witness == EmptyRun /\ cmd = "evalpnp" /\ pc = "raised"

\* C3 (as claimed): in eval and in evalpnp every error sequence has one
\* entry per sample processed so far.
C3_OneRecordPerSample ==
    cmd \in {"eval", "evalpnp"} =>
        /\ Len(errs_pose) = img_cnt
        /\ Len(errs_position) = img_cnt
        /\ cmd = "eval" => Len(errs_by_keypoint) = img_cnt

\* C3 (amended): in eval the three error sequences have one entry per sample
\* processed so far, entry i being that of sample i; in evalpnp only the
\* rotation errors do: its position errors stay the placeholder [0].
C3_Records ==
    /\ cmd = "eval" =>
          /\ Len(errs_pose) = img_cnt
          /\ Len(errs_position) = img_cnt
          /\ Len(errs_by_keypoint) = img_cnt
          /\ \A i \in 1..img_cnt :
                /\ errs_pose[i] = PoseErrOf(test_data[i])
                /\ errs_position[i] = PositionErrOf(test_data[i])
                /\ Len(errs_by_keypoint[i]) = Min(KpsRows(model), KpsTrueRows(model))
    /\ cmd = "evalpnp" =>
          /\ Len(errs_pose) = img_cnt
          /\ errs_position = <<Zero>>
          /\ errs_by_keypoint = <<>>
          /\ \A i \in 1..img_cnt :
                \E r \in {test_data[i].r_vec} \cup SwappedEstimates :
                    errs_pose[i] = geodesic_error(r, test_data[i].pose)

C3_Witness == cmd = "eval" /\ img_cnt = 2 /\ pc = "loop"

\* The number of elements of a that are at most x, and at least x.
CountLeq(a, x) == Cardinality({i \in 1..Len(a) : Leq(a[i], x)})

CountGeq(a, x) == Cardinality({i \in 1..Len(a) : Leq(x, a[i])})

\* st is the mean, a median and the maximum of the array a.
IsStatsOf(st, a) ==
    /\ Mul(st.mean, Int2Num(Len(a))) = SumSeq(a)
    /\ 2 * CountLeq(a, st.median) >= Len(a)
    /\ 2 * CountGeq(a, st.median) >= Len(a)
    /\ \/ \E i \in 1..Len(a) : st.median = a[i]
       \/ \E i, j \in 1..Len(a) : Mul(st.median, Int2Num(2)) = Add(a[i], a[j])
    /\ \E i \in 1..Len(a) : st.max = a[i]
    /\ \A i \in 1..Len(a) : Leq(a[i], st.max)

\* The example of the specification.
C4_Example ==
    [errs_pose |-> <<Rat(1, 10), Rat(3, 10)>>,
     errs_position |-> <<Rat(1, 5), Rat(2, 5)>>]

\* C4: for every non-empty sequence of error records the aggregator computes
\* mean, median and max per field: the rotation stats from the rotation
\* errors only, the position stats from the position errors only; records
\* (0.1, 0.2) and (0.3, 0.4) give mean rotation error 0.2, mean position
\* error 0.3 and max rotation error 0.3.
C4_PerFieldStats ==
    (fn_out.done /\ fn_in.errs_pose # <<>>) =>
        /\ fn_out.val.exc = "none"
        /\ fn = "display_geodesic_stats" =>
              /\ Len(fn_out.val.printed) = 2
              /\ IsStatsOf(fn_out.val.printed[1], fn_in.errs_pose)
              /\ IsStatsOf(fn_out.val.printed[2], fn_in.errs_position)
              /\ fn_in = C4_Example =>
                    /\ fn_out.val.printed[1].mean = Rat(2, 10)
                    /\ fn_out.val.printed[2].mean = Rat(3, 10)
                    /\ fn_out.val.printed[1].max = Rat(3, 10)
        /\ fn = "err_data" =>
              LET d == fn_out.val.err_data[1]
                  deg == [i \in 1..Len(fn_in.errs_pose) |-> np_degrees(fn_in.errs_pose[i])]
              IN  /\ IsStatsOf([mean |-> d.position_err_mean,
                                median |-> d.position_err_median,
                                max |-> d.position_err_max], fn_in.errs_position)
                  /\ IsStatsOf([mean |-> d.pose_err_mean,
                                median |-> d.pose_err_median,
                                max |-> d.pose_err_max], deg)

C4_Witness ==
    fn = "display_geodesic_stats" /\ fn_out.done /\ fn_in = C4_Example

\* C5: the position error of a sample is norm(true - estimated) /
\* norm(true), and a ground-truth position of norm zero makes the scorer
\* fail instead of appending an infinite or NaN error.
C5_DegenerateReference ==
    cmd = "eval" =>
        \A i \in 1..Len(errs_position) :
            /\ errs_position[i] = PositionErrOf(test_data[i])
            /\ np_linalg_norm(test_data[i].position) # Zero
            /\ IsFinite(errs_position[i])

\* The arrays of the last solver call agree in number and in order.
SameOrder(call) ==
    /\ Len(call.obs) = Len(call.ref)
    /\ \A i \in 1..Len(call.ref) : call.obs[i] = call.ref[i]

\* C6 (as claimed): at every solver call of eval and evalpnp the reference
\* points and the observed keypoints agree in number, and in order.
C6_SameCardinalityAndOrder ==
    solver_call # NoCall =>
        /\ Len(solver_call.ref) = solver_call.obs_rows
        /\ cmd = "evalpnp" => SameOrder(solver_call)

\* C6 (amended): at a solver call of evalpnp the arrays are
\* ref_points[:keypoints] and kps[:keypoints]; they agree in number when
\* keypoints.npy and the meta file list equally many keypoints, and in order
\* exactly when no swap was asked for.  At a solver call of eval the observed
\* keypoints are the 11 * 14 * 14 rows the reshape of line 161 admits, and
\* the reference points the first nb_keypoints rows of keypoints.npy: for a
\* mobilepose model there are 14 * 14 observed rows per keypoint of the model.
C6_CallArrays ==
    solver_call # NoCall =>
        /\ cmd = "evalpnp" =>
              /\ Len(solver_call.ref) = Min(keypoints, Len(keypoints_npy))
              /\ solver_call.obs_rows = Min(keypoints, meta_keypoints)
              /\ Len(solver_call.obs) = solver_call.obs_rows
              /\ Len(keypoints_npy) = meta_keypoints =>
                    Len(solver_call.ref) = solver_call.obs_rows
              /\ (rand_swap_amt = 0 /\ Len(keypoints_npy) = meta_keypoints)
                    => SameOrder(solver_call)
              /\ rand_swap_amt > 0 => ~SameOrder(solver_call)
        /\ cmd = "eval" =>
              /\ solver_call.obs_rows =
                    ReshapeKeypoints * ReshapeGridSide * ReshapeGridSide
              /\ Len(solver_call.ref) = Min(nb_keypoints_of(model), Len(keypoints_npy))
              /\ model.name = "mobilepose" =>
                    solver_call.obs_rows =
                        ReshapeGridSide * ReshapeGridSide * nb_keypoints_of(model)

C6_Witness ==
    /\ cmd = "eval" /\ model.name = "mobilepose" /\ pc = "done"
    /\ solver_call.obs_rows > Len(solver_call.ref)

\* C7 (as claimed): a point mapped into the crop and back is the point.
C7_RoundTrip ==
    (fn = "crop_round_trip" /\ fn_out.done) => fn_out.val = fn_in.p

\* C7 (amended): a point mapped into the crop and back is the point when
\* cropsize is even; when cropsize is odd each coordinate comes back smaller
\* by bbox_size / (2 * cropsize), because the forward offset is
\* cropsize // 2.
C7_RoundTripEven ==
    (fn = "crop_round_trip" /\ fn_out.done) =>
        \A i \in 1..2 :
            fn_out.val[i] =
                IF fn_in.cropsize % 2 = 0 THEN fn_in.p[i]
                ELSE Sub(fn_in.p[i],
                         Div(fn_in.bbox_size, Int2Num(2 * fn_in.cropsize)))

C7_Witness ==
    /\ fn = "crop_round_trip" /\ fn_out.done
    /\ fn_in.cropsize % 2 = 0 /\ fn_out.val = fn_in.p

\* The samples processed so far, in the order of their ids.
ProcessedById ==
    SortSeq(SubSeq(test_data, 1, img_cnt), LAMBDA a, b : a.id < b.id)

PoseErrsById == [i \in 1..Len(ProcessedById) |-> PoseErrOf(ProcessedById[i])]

PositionErrsById == [i \in 1..Len(ProcessedById) |-> PositionErrOf(ProcessedById[i])]

C10_SelfIsZero ==
    (fn = "geodesic_error" /\ fn_out.done /\ ToMatrix(fn_in.a) = ToMatrix(fn_in.b))
        => fn_out.val = Zero

C10_Witness ==
    /\ fn = "geodesic_error" /\ fn_out.done
    /\ ToMatrix(fn_in.a) = ToMatrix(fn_in.b)
    /\ ToMatrix(fn_in.a) # Identity3
    /\ fn_in.a # fn_in.b

\* C11: geodesic_error is symmetric: the error of (R1, R2) equals the error
\* of (R2, R1) for every pair of rotations, in either representation.
C11_Symmetric ==
    (fn = "geodesic_error" /\ fn_out.done) =>
        fn_out.val = geodesic_error(fn_in.b, fn_in.a)

C11_Witness ==
    /\ fn = "geodesic_error" /\ fn_out.done
    /\ fn_in.a \in RotVecs /\ fn_in.b \in Quats
    /\ ToMatrix(fn_in.a) # Identity3 /\ ToMatrix(fn_in.b) # Identity3
    /\ fn_out.val = Rat(2, 3)

IsPredictionOf(row, k) ==
    /\ row[1].kp = k /\ row[2].kp = k
    /\ row[1].coord = 0 /\ row[2].coord = 1
    /\ row[1].cell = row[2].cell

AsLoaded(ref) == ref = [i \in 1..Len(ref) |-> i]

\* C14: in eval and evalpnp the reference points have, after every sample,
\* the contents they were loaded with; no step changes the test set; and the
\* observed keypoints of each solver call of evalpnp are one round of swaps
\* of that meta file's own keypoints.
C14_RefPointsImmutable ==
    /\ [](AsLoaded(keypoints_npy))
    /\ [][keypoints_npy' = keypoints_npy /\ test_data' = test_data]_vars
    /\ []((cmd = "evalpnp" /\ solver_call # NoCall) =>
            \E swaps \in RandomSamples(keypoints, 2 * rand_swap_amt) :
                /\ ~SwapIndexError(swaps)
                /\ solver_call.obs = Prefix(SwapRows(MetaKps, swaps), keypoints))

C14_Witness ==
    /\ cmd = "evalpnp" /\ img_cnt = 2 /\ rand_swap_amt > 0
    /\ solver_call.obs # Prefix(MetaKps, keypoints)
    /\ AsLoaded(keypoints_npy)

----------------------------------------------------------------------------
(* tf_bbox helpers: prepare_for_training (helpers.py lines 25-182).         *)

\* The optimizers of the model's defaults file.
Optimizers == {"Adam", "RMSProp"}

\* The states of the artifact directory before the call: absent, present
\* and empty, present with old data.
BaseDirs ==
    {[exists |-> FALSE, files |-> {}],
     [exists |-> TRUE, files |-> {}],
     [exists |-> TRUE, files |-> {"models/model/train/model.ckpt-7.index"}]}

\* The metadata dictionaries handed to the call.
Metadatas ==
    {<<>>,
     [architecture |-> "ssd"],
     [architecture |-> "ssd", hyperparameters |-> "stale"]}

\* The files of the dataset's splits/complete/train directory.
RecordFiles == {"train.record-00000", "test.record-00000", "test.record.numexamples"}

\* d[key] = value on a Python dict.
SetItem(d, key, value) ==
    [k \in DOMAIN d \cup {key} |-> IF k = key THEN value ELSE d[k]]

\* hp_metadata (lines 95-104): the chosen optimizer and its default fields.
HpMetadata(optimizer) == [optimizer |-> optimizer, config |-> <<"defaults", optimizer>>]

\* str.startswith on the names of the record files.
IsTrainRecord(f) == f = "train.record-00000"

IsTestRecord(f) == f = "test.record-00000"

\* base_dir / 'data' / f for a record file f.
InData(f) == IF IsTrainRecord(f) THEN "data/train.record-00000" ELSE "data/test.record-00000"

\* The contents of base_dir after lines 51-178.
TrainingTree(records) ==
    {"data/label_map.pbtxt", "models/model/pipeline.config",
     "models/model/eval", "models/model/train/checkpoint",
     "models/model/train/model.ckpt.index", "models/model/train/model.ckpt-0.index"}
    \cup {InData(f) : f \in {r \in records : IsTrainRecord(r) \/ IsTestRecord(r)}}

\* prepare_for_training with the overwrite done whatever the user answers.
prepare_for_training_overwrite(in) ==
    IF ~in.label_map
    THEN [ret |-> "none", exc |-> "FileNotFoundError",
          base_dir |-> [exists |-> TRUE, files |-> {"data"}],
          metadata |-> in.metadata]
    ELSE [ret |-> "True", exc |-> "none",
          base_dir |-> [exists |-> TRUE, files |-> TrainingTree(in.records)],
          metadata |-> SetItem(in.metadata, "hyperparameters", HpMetadata(in.optimizer))]

\* prepare_for_training: the value returned or the exception raised, and
\* base_dir and the metadata dictionary as the call leaves them.
prepare_for_training(in) ==
    IF in.base_dir.exists /\ ~in.user_confirms
    THEN [ret |-> "False", exc |-> "none",
          base_dir |-> in.base_dir, metadata |-> in.metadata]
    ELSE IF ~in.label_map
    THEN \* shutil.copy of a missing label_map.pbtxt (line 58) raises
         [ret |-> "none", exc |-> "FileNotFoundError",
          base_dir |-> [exists |-> TRUE, files |-> {"data"}],
          metadata |-> in.metadata]
    ELSE [ret |-> "True", exc |-> "none",
          base_dir |-> [exists |-> TRUE, files |-> TrainingTree(in.records)],
          metadata |-> SetItem(in.metadata, "hyperparameters", HpMetadata(in.optimizer))]

InitPrepare ==
    /\ IdleEval
    /\ fn = "prepare_for_training"
    /\ fn_in \in [base_dir : BaseDirs, user_confirms : BOOLEAN, label_map : BOOLEAN,
                  optimizer : Optimizers, records : SUBSET RecordFiles,
                  metadata : Metadatas]
    /\ fn_out = NoResult

ApplyPrepareForTraining ==
    /\ fn = "prepare_for_training" /\ ~fn_out.done
    /\ fn_out' = [done |-> TRUE, val |-> prepare_for_training(fn_in)]
    /\ UNCHANGED <<fn, fn_in>>
    /\ UNCHANGED evalVars

NextPrepare == ApplyPrepareForTraining

SpecPrepare == InitPrepare /\ [][NextPrepare]_vars

\* C15: when base_dir exists and the user declines, prepare_for_training
\* returns False and leaves base_dir and the metadata dictionary as they
\* were; when it returns True, metadata['hyperparameters'] has been set.
C15_DeclineLeavesAll ==
    (fn = "prepare_for_training" /\ fn_out.done) =>
        /\ (fn_in.base_dir.exists /\ ~fn_in.user_confirms) =>
              /\ fn_out.val.ret = "False"
              /\ fn_out.val.base_dir = fn_in.base_dir
              /\ fn_out.val.metadata = fn_in.metadata
        /\ fn_out.val.ret = "True" =>
              /\ "hyperparameters" \in DOMAIN fn_out.val.metadata
              /\ fn_out.val.metadata["hyperparameters"] = HpMetadata(fn_in.optimizer)

C15_Witness ==
    /\ fn = "prepare_for_training" /\ fn_out.done
    /\ fn_in.base_dir.files # {} /\ ~fn_in.user_confirms
    /\ fn_in.label_map
    /\ fn_out.val.ret = "False"
    /\ "hyperparameters" \notin DOMAIN fn_out.val.metadata

----------------------------------------------------------------------------
(* tf_bbox helpers: download_model_arch (helpers.py lines 184-217).         *)

\* The most calls of download_model_arch in one run.
MaxCalls == 3

ModelNames == {"ssd_inception_v1", "faster_rcnn"}

\* What the archive of a model can unpack to: a top-level directory named
\* after the model, or one with another name.
ArchiveLayouts == [ModelNames -> {"model_name", "other_name"}]

\* The directory tar.extractall(path=archs_path) creates for the model.
ExtractedDir(archives, model_name) ==
    IF archives[model_name] = "model_name" THEN model_name
    ELSE IF model_name = "faster_rcnn" THEN "faster_rcnn_2018_01_28"
    ELSE "ssd_inception_v1_2018_01_28"

\* untarred_path = archs_path / model_name, relative to archs_path.
UntarredPath(model_name) == model_name

\* download_model_arch on a cache whose bbox_model_archs holds the
\* directories dirs: the path returned or the exception raised, whether the
\* archive was downloaded, and the directories afterwards.
download_model_arch(model_name, dirs, archives, reachable) ==
    IF UntarredPath(model_name) \in dirs
    THEN [name |-> model_name, exc |-> "none", path |-> UntarredPath(model_name),
          downloaded |-> FALSE, dirs |-> dirs]
    ELSE IF ~reachable
    THEN \* urllib.request.urlretrieve raises
         [name |-> model_name, exc |-> "URLError", path |-> "none",
          downloaded |-> FALSE, dirs |-> dirs]
    ELSE [name |-> model_name, exc |-> "none", path |-> UntarredPath(model_name),
          downloaded |-> TRUE,
          dirs |-> dirs \cup {ExtractedDir(archives, model_name)}]

InitDownload ==
    /\ IdleEval
    /\ fn = "download_model_arch"
    /\ fn_in \in [archives : ArchiveLayouts]
    /\ \E dirs \in SUBSET ModelNames :
          fn_out = [done |-> FALSE, val |-> [dirs |-> dirs, calls |-> <<>>]]

\* One call of download_model_arch.
DownloadModelArch ==
    /\ fn = "download_model_arch" /\ ~fn_out.done
    /\ \E model_name \in ModelNames, reachable \in BOOLEAN :
          LET res == download_model_arch(model_name, fn_out.val.dirs,
                                         fn_in.archives, reachable)
              calls == Append(fn_out.val.calls,
                              [name |-> res.name, exc |-> res.exc, path |-> res.path,
                               downloaded |-> res.downloaded])
          IN  fn_out' = [done |-> Len(calls) = MaxCalls,
                         val |-> [dirs |-> res.dirs, calls |-> calls]]
    /\ UNCHANGED <<fn, fn_in>>
    /\ UNCHANGED evalVars

NextDownload == DownloadModelArch

SpecDownload == InitDownload /\ [][NextDownload]_vars

\* C16: after a call of download_model_arch that succeeded, every later call
\* for the same model name downloads nothing and returns the same path.
C16_DownloadedOnce ==
    fn = "download_model_arch" =>
        \A i, j \in 1..Len(fn_out.val.calls) :
            LET first == fn_out.val.calls[i]
                later == fn_out.val.calls[j]
            IN  (i < j /\ first.exc = "none" /\ first.name = later.name) =>
                    /\ later.exc = "none"
                    /\ ~later.downloaded
                    /\ later.path = first.path

----------------------------------------------------------------------------
(* evalpnp: the swap step (lines 244, 257-260).                             *)

\* The rows of a as a set.
Rows(a) == {a[i] : i \in 1..Len(a)}

\* C17: for every swap_random_percent the swap step of evalpnp completes
\* (no iteration ends in the ValueError of random.sample or in an
\* IndexError), and the keypoint array after it is a permutation of the
\* array read from the meta file: the same rows, none duplicated or lost.
C17_SwapIsPermutation ==
    cmd = "evalpnp" =>
        /\ (pc = "raised" /\ img_cnt < Len(test_data)) =>
              exc \notin {"ValueError", "IndexError"}
        /\ (solver_call # NoCall /\ keypoints = meta_keypoints) =>
              /\ Len(solver_call.obs) = Len(MetaKps)
              /\ Rows(solver_call.obs) = Rows(MetaKps)

----------------------------------------------------------------------------
(* _get_paths_for_extra_files of tf_instance (core.py lines 244-303) and of *)
(* tf_bbox (core.py lines 472-514).  File names are sequences of            *)
(* characters.                                                              *)

DigitChars == <<"0", "1", "2", "3", "4", "5", "6", "7", "8", "9">>

IsDigit(c) == \E d \in 1..10 : DigitChars[d] = c

DigitValue(c) == (CHOOSE d \in 1..10 : DigitChars[d] = c) - 1

\* The character class [a-zA-Z0-9_-] of the regex.
IsClassChar(c) ==
    \/ IsDigit(c)
    \/ c \in {"_", "-"}
    \/ c \in {"a", "b", "c", "d", "e", "f", "g", "h", "i", "j", "k", "l", "m",
              "n", "o", "p", "q", "r", "s", "t", "u", "v", "w", "x", "y", "z"}
    \/ c \in {"A", "B", "C", "D", "E", "F", "G", "H", "I", "J", "K", "L", "M",
              "N", "O", "P", "Q", "R", "S", "T", "U", "V", "W", "X", "Y", "Z"}

\* The file names of the model directory that the plugins write or look
\* for, and the extensions of a checkpoint's files.
FileNames ==
    [model_ckpt |->
        <<"m", "o", "d", "e", "l", ".", "c", "k", "p", "t">>,
     ckpt |->
        <<"c", "k", "p", "t">>,
     index |->
        <<".", "i", "n", "d", "e", "x">>,
     meta |->
        <<".", "m", "e", "t", "a">>,
     data |->
        <<".", "d", "a", "t", "a", "-", "0", "0", "0", "0", "0", "-", "o", "f", "-", "0", "0", "0", "0", "1">>,
     pipeline_config |->
        <<"p", "i", "p", "e", "l", "i", "n", "e", ".", "c", "o", "n", "f", "i", "g">>,
     graph_pbtxt |->
        <<"g", "r", "a", "p", "h", ".", "p", "b", "t", "x", "t">>,
     saved_model |->
        <<"e", "x", "p", "o", "r", "t", "/", "s", "a", "v", "e", "d", "_", "m", "o", "d", "e", "l", ".", "p", "b">>,
     label_map |->
        <<"l", "a", "b", "e", "l", "_", "m", "a", "p", ".", "p", "b", "t", "x", "t">>,
     events |->
        <<"e", "v", "e", "n", "t", "s", ".", "o", "u", "t", ".", "t", "f", "e", "v", "e", "n", "t", "s">>,
     checkpoint |->
        <<"c", "h", "e", "c", "k", "p", "o", "i", "n", "t">>]

\* The files a tf.estimator run of tf_instance leaves in models/model.
InstanceFiles ==
    {FileNames.model_ckpt \o <<"-", "0">> \o FileNames.index,
     FileNames.model_ckpt \o <<"-", "0">> \o FileNames.meta,
     FileNames.model_ckpt \o <<"-", "9">> \o FileNames.index,
     FileNames.model_ckpt \o <<"-", "1", "0">> \o FileNames.index,
     FileNames.model_ckpt \o <<"-", "1", "0">> \o FileNames.data,
     FileNames.checkpoint, FileNames.pipeline_config, FileNames.events}

\* The files the CheckpointManager of tf_bbox (core.py lines 185, 260)
\* leaves in models/model: its checkpoints are named ckpt-N.
BboxFiles ==
    {FileNames.ckpt \o <<"-", "1">> \o FileNames.index,
     FileNames.ckpt \o <<"-", "1">> \o FileNames.data,
     FileNames.ckpt \o <<"-", "2">> \o FileNames.index,
     FileNames.checkpoint, FileNames.pipeline_config, FileNames.events}

\* str.startswith
StartsWith(f, prefix) ==
    Len(f) >= Len(prefix) /\ SubSeq(f, 1, Len(prefix)) = prefix

\* checkpoint_regex.match(f) for r'model.ckpt-[1-9][0-9]*.[a-zA-Z0-9_-]+':
\* a match at the start of f; the dots match any character.
checkpoint_regex_match(f) ==
    /\ Len(f) >= 12
    /\ SubSeq(f, 1, 5) = <<"m", "o", "d", "e", "l">>
    /\ SubSeq(f, 7, 11) = <<"c", "k", "p", "t", "-">>
    /\ IsDigit(f[12]) /\ f[12] # "0"
    /\ \E k \in 12..(Len(f) - 2) :
          /\ \A i \in 13..k : IsDigit(f[i])
          /\ IsClassChar(f[k + 2])

\* The least index of character c in s, Len(s) + 1 if there is none.
FirstIndex(s, c) ==
    IF \E i \in 1..Len(s) : s[i] = c
    THEN CHOOSE i \in 1..Len(s) : s[i] = c /\ \A j \in 1..(i - 1) : s[j] # c
    ELSE Len(s) + 1

\* s.split(c)[0]
SplitFirst(s, c) == SubSeq(s, 1, FirstIndex(s, c) - 1)

\* s.split(c)[1]
SplitSecond(s, c) == SplitFirst(SubSeq(s, FirstIndex(s, c) + 1, Len(s)), c)

\* int(s) for a string of digits, -1 where int raises ValueError.
RECURSIVE ParseInt(_)
ParseInt(s) ==
    IF s = <<>> \/ \E i \in 1..Len(s) : ~IsDigit(s[i]) THEN -1
    ELSE IF Len(s) = 1 THEN DigitValue(s[1])
    ELSE 10 * ParseInt(SubSeq(s, 1, Len(s) - 1)) + DigitValue(s[Len(s)])

\* str(n) for n >= 0
RECURSIVE Str(_)
Str(n) == IF n < 10 THEN <<DigitChars[n + 1]>> ELSE Str(n \div 10) \o <<DigitChars[(n % 10) + 1]>>

\* The step taken from the first digit of the name only.
checkpoint_num_first_digit(checkpoint) ==
    ParseInt(SubSeq(SplitFirst(SplitSecond(checkpoint, "-"), "."), 1, 1))

\* checkpoint_num = int(checkpoint.split('-')[1].split('.')[0])
checkpoint_num(checkpoint) == ParseInt(SplitFirst(SplitSecond(checkpoint, "-"), "."))

SetMax(S) == CHOOSE x \in S : \A y \in S : y <= x

\* _get_paths_for_extra_files on the listing files of models/model: the
\* checkpoint prefix handed to _export_frozen_inference_graph (tf_instance
\* only; tf_bbox computes it and drops it) and the extras returned, as a set.
get_paths_for_extra_files(plugin, files) ==
    LET checkpoints == {f \in files : checkpoint_regex_match(f)}
        nums == {checkpoint_num(f) : f \in checkpoints}
        max_checkpoint == SetMax(nums \cup {0})
        ckpt_prefix == FileNames.model_ckpt \o <<"-">> \o Str(max_checkpoint)
        events == {f \in files : StartsWith(f, <<"e", "v", "e", "n", "t", "s", ".", "o", "u", "t">>)}
    IN  IF -1 \in nums
        THEN [exc |-> "ValueError", exported |-> <<>>, extras |-> {}]
        ELSE [exc |-> "none",
              exported |-> IF plugin = "tf_instance" THEN ckpt_prefix ELSE <<>>,
              extras |-> checkpoints \cup {FileNames.pipeline_config, FileNames.label_map} \cup events
                         \cup (IF plugin = "tf_instance"
                               THEN {FileNames.graph_pbtxt, FileNames.saved_model} ELSE {})]

InitExtras ==
    /\ IdleEval
    /\ fn = "_get_paths_for_extra_files"
    /\ \/ fn_in \in [plugin : {"tf_instance"}, files : SUBSET InstanceFiles]
       \/ fn_in \in [plugin : {"tf_bbox"}, files : SUBSET BboxFiles]
    /\ fn_out = NoResult

ApplyGetPathsForExtraFiles ==
    /\ fn = "_get_paths_for_extra_files" /\ ~fn_out.done
    /\ fn_out' = [done |-> TRUE, val |-> get_paths_for_extra_files(fn_in.plugin, fn_in.files)]
    /\ UNCHANGED <<fn, fn_in>>
    /\ UNCHANGED evalVars

NextExtras == ApplyGetPathsForExtraFiles

SpecExtras == InitExtras /\ [][NextExtras]_vars

\* The step number in the name of a checkpoint file, -1 for other names.
StepOf(f) ==
    LET after == SubSeq(f, FirstIndex(f, "-") + 1, Len(f))
        upto == Min(FirstIndex(after, "-"), FirstIndex(after, ".")) - 1
    IN  ParseInt(SubSeq(after, 1, upto))

\* A checkpoint file of the model directory: model.ckpt-N.* as the estimator
\* names them, or ckpt-N.* as the CheckpointManager names them.
IsCheckpointFile(f) ==
    /\ SubSeq(f, 1, FirstIndex(f, "-") - 1) \in {FileNames.model_ckpt, FileNames.ckpt}
    /\ StepOf(f) >= 0

\* The file belongs to the checkpoint with the given prefix.
HasPrefix(f, prefix) == StartsWith(f, prefix \o <<".">>)

\* The prefix handed to the export names the highest step present.
IsHighestCheckpoint(prefix, files) ==
    /\ \E f \in files : HasPrefix(f, prefix)
    /\ \A f \in files : \A g \in files :
          (HasPrefix(f, prefix) /\ IsCheckpointFile(g)) => StepOf(g) <= StepOf(f)

\* C18 (as claimed): for any set of files in the model directory the prefix
\* tf_instance hands to the frozen-graph export is model.ckpt-N with N the
\* highest step among the checkpoint files, and such a checkpoint exists.
C18_HighestCheckpoint ==
    (fn = "_get_paths_for_extra_files" /\ fn_out.done /\ fn_in.plugin = "tf_instance") =>
        /\ fn_out.val.exc = "none"
        /\ StartsWith(fn_out.val.exported, FileNames.model_ckpt \o <<"-">>)
        /\ IsHighestCheckpoint(fn_out.val.exported, fn_in.files)

\* C18 (amended): when the model directory holds at least one checkpoint
\* file the prefix is model.ckpt-N with N the highest step among them, and
\* that checkpoint exists; when it holds none the prefix is model.ckpt-0,
\* which no file of the directory has.
C18_HighestCheckpointIfAny ==
    (fn = "_get_paths_for_extra_files" /\ fn_out.done /\ fn_in.plugin = "tf_instance") =>
        /\ fn_out.val.exc = "none"
        /\ StartsWith(fn_out.val.exported, FileNames.model_ckpt \o <<"-">>)
        /\ (\E f \in fn_in.files : IsCheckpointFile(f)) =>
              IsHighestCheckpoint(fn_out.val.exported, fn_in.files)
        /\ ~(\E f \in fn_in.files : IsCheckpointFile(f)) =>
              /\ fn_out.val.exported = FileNames.model_ckpt \o <<"-", "0">>
              /\ ~\E f \in fn_in.files : HasPrefix(f, fn_out.val.exported)

C18_Witness ==
    /\ fn = "_get_paths_for_extra_files" /\ fn_out.done /\ fn_in.plugin = "tf_instance"
    /\ FileNames.model_ckpt \o <<"-", "9">> \o FileNames.index \in fn_in.files
    /\ FileNames.model_ckpt \o <<"-", "1", "0">> \o FileNames.index \in fn_in.files
    /\ fn_out.val.exported = FileNames.model_ckpt \o <<"-", "1", "0">>

\* C19: the extras returned by _get_paths_for_extra_files hold no checkpoint
\* file of step 0 and hold every checkpoint file of the model directory
\* whose step is 1 or more, in tf_instance and in tf_bbox.
C19_ExtrasCheckpoints ==
    (fn = "_get_paths_for_extra_files" /\ fn_out.done) =>
        /\ \A f \in fn_out.val.extras : ~(IsCheckpointFile(f) /\ StepOf(f) = 0)
        /\ \A f \in fn_in.files :
              (IsCheckpointFile(f) /\ StepOf(f) >= 1) => f \in fn_out.val.extras

----------------------------------------------------------------------------
(* dataset_from_directory of tf_mobilepose (utils/data.py lines 14-75) and  *)
(* of tf_poseregression (utils.py lines 15-54).                             *)

\* The samples of a test directory, by the number in their file names
\* (image_<n>.png, meta_<n>.json), as its digits.
SampleIds == {<<1>>, <<2>>, <<1, 0>>}

\* What follows the common prefix in the name of a sample's file: the digits
\* of the number, then the dot of the extension.  A character is kept as a
\* number that orders as its code does: the dot (-1) before every digit.
NameTail(id) == id \o <<-1>>

\* Python's < on strings: lexicographic, a proper prefix first.
RECURSIVE StrLess(_, _)
StrLess(a, b) ==
    IF b = <<>> THEN FALSE
    ELSE IF a = <<>> THEN TRUE
    ELSE IF a[1] # b[1] THEN a[1] < b[1]
    ELSE StrLess(Tail(a), Tail(b))

\* sorted(glob.glob(...)) on the files of the samples in ids.
SortedFiles(ids) ==
    CHOOSE s \in [1..Cardinality(ids) -> ids] :
        \A i, j \in 1..Cardinality(ids) :
            i < j => StrLess(NameTail(s[i]), NameTail(s[j]))

\* zip(image_files, meta_files)
Zip(a, b) == [i \in 1..Min(Len(a), Len(b)) |-> [image |-> a[i], meta |-> b[i]]]

\* The pairs the generator yields, in order.
GeneratorPairs(images, metas) == Zip(SortedFiles(images), SortedFiles(metas))

InitDataset ==
    /\ IdleEval
    /\ fn = "dataset_from_directory"
    /\ fn_in \in [plugin : {"tf_mobilepose", "tf_poseregression"},
                  images : SUBSET SampleIds, metas : SUBSET SampleIds]
    /\ fn_out = [done |-> FALSE, val |-> [exc |-> "none", yielded |-> <<>>]]

\* meta_file_0 = glob.glob(...)[0] on a directory without meta files.
DatasetFromDirectoryRaises ==
    /\ fn = "dataset_from_directory" /\ ~fn_out.done
    /\ fn_in.metas = {}
    /\ fn_out' = [done |-> TRUE, val |-> [exc |-> "IndexError", yielded |-> <<>>]]
    /\ UNCHANGED <<fn, fn_in>>
    /\ UNCHANGED evalVars

\* The generator yields its next (image, metadata) pair.
GeneratorYield ==
    /\ fn = "dataset_from_directory" /\ ~fn_out.done
    /\ fn_in.metas # {}
    /\ LET pairs == GeneratorPairs(fn_in.images, fn_in.metas)
           n == Len(fn_out.val.yielded)
       IN  /\ n < Len(pairs)
           /\ fn_out' = [fn_out EXCEPT !.val.yielded = Append(@, pairs[n + 1])]
    /\ UNCHANGED <<fn, fn_in>>
    /\ UNCHANGED evalVars

\* The generator is exhausted.
GeneratorStop ==
    /\ fn = "dataset_from_directory" /\ ~fn_out.done
    /\ fn_in.metas # {}
    /\ Len(fn_out.val.yielded) = Len(GeneratorPairs(fn_in.images, fn_in.metas))
    /\ fn_out' = [fn_out EXCEPT !.done = TRUE]
    /\ UNCHANGED <<fn, fn_in>>
    /\ UNCHANGED evalVars

NextDataset == DatasetFromDirectoryRaises \/ GeneratorYield \/ GeneratorStop

SpecDataset == InitDataset /\ [][NextDataset]_vars

\* C20: every (image, metadata) pair that dataset_from_directory yields is
\* of one sample, and when the generator stops it has yielded as many pairs
\* as the shorter of the two sorted file lists has entries.
C20_SameSample ==
    fn = "dataset_from_directory" =>
        /\ \A k \in 1..Len(fn_out.val.yielded) :
              fn_out.val.yielded[k].image = fn_out.val.yielded[k].meta
        /\ (fn_out.done /\ fn_out.val.exc = "none") =>
              Len(fn_out.val.yielded) =
                  Min(Cardinality(fn_in.images), Cardinality(fn_in.metas))

----------------------------------------------------------------------------
(* tf_instance: _import_od and _dynamic_import (core.py lines 330-390).     *)

\* The calls of _dynamic_import that _import_od makes, in order.
OdImports ==
    <<[modulename |-> "tensorflow", shortname |-> "tf", asfunction |-> FALSE],
      [modulename |-> "object_detection.model_hparams", shortname |-> "model_hparams",
       asfunction |-> FALSE],
      [modulename |-> "object_detection.model_lib", shortname |-> "model_lib",
       asfunction |-> FALSE],
      [modulename |-> "object_detection.exporter", shortname |-> "exporter",
       asfunction |-> FALSE],
      [modulename |-> "object_detection.protos", shortname |-> "pipeline_pb2",
       asfunction |-> TRUE]>>

\* The streams sys.stdout and sys.stderr can be bound to when _import_od is
\* called: the interpreter's own, or one the caller has put in their place.
StdoutStreams == {"sys.__stdout__", "caller_stdout"}

StderrStreams == {"sys.__stderr__", "caller_stderr"}

\* _dynamic_import: the exception it raises, and the names bound in
\* globals() after it.  A module that cannot be imported raises
\* ImportError; a name the module lacks raises AttributeError.
dynamic_import(bound, imp, failure) ==
    IF failure = "none" THEN [exc |-> "none", bound |-> bound \cup {imp.shortname}]
    ELSE IF failure = "missing_attribute" /\ imp.asfunction
    THEN [exc |-> "AttributeError", bound |-> bound]
    ELSE [exc |-> "ImportError", bound |-> bound]

InitImport ==
    /\ IdleEval
    /\ fn = "_import_od"
    /\ fn_in \in [stdout : StdoutStreams, stderr : StderrStreams,
                  failing : 0..Len(OdImports),
                  failure : {"missing_module", "missing_attribute"}]
    /\ fn_out = [done |-> FALSE,
                 val |-> [pc |-> "redirect", exc |-> "none", imported |-> 0, bound |-> {},
                          stdout |-> fn_in.stdout, stderr |-> fn_in.stderr]]

\* Lines 339-341: sys.stdout = text_trap; sys.stderr = text_trap.
ImportOdRedirect ==
    /\ fn = "_import_od" /\ ~fn_out.done /\ fn_out.val.pc = "redirect"
    /\ fn_out' = [fn_out EXCEPT !.val.pc = "import",
                                !.val.stdout = "text_trap",
                                !.val.stderr = "text_trap"]
    /\ UNCHANGED <<fn, fn_in>>
    /\ UNCHANGED evalVars

\* One of lines 350-354 returning.
DynamicImport ==
    /\ fn = "_import_od" /\ ~fn_out.done /\ fn_out.val.pc = "import"
    /\ fn_out.val.imported < Len(OdImports)
    /\ fn_in.failing # fn_out.val.imported + 1
    /\ fn_out' = [fn_out EXCEPT
                    !.val.imported = @ + 1,
                    !.val.bound = dynamic_import(@, OdImports[fn_out.val.imported + 1],
                                                 "none").bound]
    /\ UNCHANGED <<fn, fn_in>>
    /\ UNCHANGED evalVars

\* One of lines 350-354 raising: nothing in _import_od catches the
\* exception, so it leaves the function.
DynamicImportRaises ==
    /\ fn = "_import_od" /\ ~fn_out.done /\ fn_out.val.pc = "import"
    /\ fn_out.val.imported < Len(OdImports)
    /\ fn_in.failing = fn_out.val.imported + 1
    /\ fn_out' = [fn_out EXCEPT
                    !.done = TRUE,
                    !.val.pc = "raised",
                    !.val.exc = dynamic_import(fn_out.val.bound,
                                               OdImports[fn_out.val.imported + 1],
                                               fn_in.failure).exc]
    /\ UNCHANGED <<fn, fn_in>>
    /\ UNCHANGED evalVars

\* Lines 357-358: sys.stdout = sys.__stdout__; sys.stderr = sys.__stderr__.
ImportOdRestore ==
    /\ fn = "_import_od" /\ ~fn_out.done /\ fn_out.val.pc = "import"
    /\ fn_out.val.imported = Len(OdImports)
    /\ fn_out' = [fn_out EXCEPT !.done = TRUE,
                                !.val.pc = "returned",
                                !.val.stdout = "sys.__stdout__",
                                !.val.stderr = "sys.__stderr__"]
    /\ UNCHANGED <<fn, fn_in>>
    /\ UNCHANGED evalVars

NextImport ==
    \/ ImportOdRedirect
    \/ DynamicImport
    \/ DynamicImportRaises
    \/ ImportOdRestore

SpecImport == InitImport /\ [][NextImport]_vars

\* C21: when _import_od has ended, by returning or by an import raising,
\* sys.stdout and sys.stderr are the streams they were before the call.
C21_StreamsRestored ==
    (fn = "_import_od" /\ fn_out.done) =>
        /\ fn_out.val.stdout = fn_in.stdout
        /\ fn_out.val.stderr = fn_in.stderr

----------------------------------------------------------------------------
(* tf_bbox: the training loop of train and the export that follows it       *)
(* (core.py lines 130-331).                                                 *)

MaxTrainSteps == 6

MaxLogEvery == 3

\* Line 185: tf.train.CheckpointManager(..., max_to_keep=5).
MaxToKeep == 5

\* Line 259: step % config.get('log_eval_every') == 0.
log_eval_due_every_step(step, log_eval_every) == TRUE

log_eval_due(step, log_eval_every) == step % log_eval_every = 0

\* Line 250: step % config.get('log_train_every') == 0.
log_train_due(step, log_train_every) == step % log_train_every = 0

\* Line 260: manager.save() writes the model's current weights as checkpoint
\* number save_counter + 1 and keeps the max_to_keep most recent ones.
manager_save(kept, save_counter, global_step) ==
    LET all == Append(kept, [number |-> save_counter + 1, global_step |-> global_step])
    IN  IF Len(all) > MaxToKeep
        THEN SubSeq(all, Len(all) - MaxToKeep + 1, Len(all))
        ELSE all

TrainVal == fn_out.val

InitTrain ==
    /\ IdleEval
    /\ fn = "train"
    /\ fn_in \in [num_train_steps : 0..MaxTrainSteps,
                  log_train_every : 1..MaxLogEvery,
                  log_eval_every : 1..MaxLogEvery]
    /\ fn_out = [done |-> FALSE,
                 val |-> [pc |-> "loop", step |-> 1, global_step |-> 0, losses |-> 0,
                          save_counter |-> 0, checkpoints |-> <<>>, calls |-> <<>>]]

\* Line 248: losses.append(_dist_train_step(train_input_iterator)), one
\* train_step_fn per call (num_steps_per_iteration = 1), which ends with
\* global_step.assign_add(1).
DistTrainStep ==
    /\ fn = "train" /\ ~fn_out.done /\ TrainVal.pc = "loop"
    /\ TrainVal.step <= fn_in.num_train_steps
    /\ fn_out' = [fn_out EXCEPT
                    !.val.pc = "log_train",
                    !.val.global_step = @ + 1,
                    !.val.losses = @ + 1,
                    !.val.calls = Append(@, [op |-> "_dist_train_step",
                                             step |-> TrainVal.step])]
    /\ UNCHANGED <<fn, fn_in>>
    /\ UNCHANGED evalVars

\* Lines 250-257: the average training loss is printed and losses emptied.
LogTrain ==
    /\ fn = "train" /\ ~fn_out.done /\ TrainVal.pc = "log_train"
    /\ fn_out' = [fn_out EXCEPT
                    !.val.pc = "log_eval",
                    !.val.losses = IF log_train_due(TrainVal.step, fn_in.log_train_every)
                                   THEN 0 ELSE @]
    /\ UNCHANGED <<fn, fn_in>>
    /\ UNCHANGED evalVars

\* Lines 259-260: manager.save().
ManagerSave ==
    /\ fn = "train" /\ ~fn_out.done /\ TrainVal.pc = "log_eval"
    /\ log_eval_due(TrainVal.step, fn_in.log_eval_every)
    /\ fn_out' = [fn_out EXCEPT
                    !.val.pc = "evaluate",
                    !.val.save_counter = @ + 1,
                    !.val.checkpoints = manager_save(@, TrainVal.save_counter,
                                                     TrainVal.global_step),
                    !.val.calls = Append(@, [op |-> "manager.save",
                                             step |-> TrainVal.step])]
    /\ UNCHANGED <<fn, fn_in>>
    /\ UNCHANGED evalVars

\* Lines 261-265: evaluate(eval_input), then the next iteration.
Evaluate ==
    /\ fn = "train" /\ ~fn_out.done /\ TrainVal.pc = "evaluate"
    /\ fn_out' = [fn_out EXCEPT
                    !.val.pc = "loop",
                    !.val.step = @ + 1,
                    !.val.calls = Append(@, [op |-> "evaluate",
                                             step |-> TrainVal.step])]
    /\ UNCHANGED <<fn, fn_in>>
    /\ UNCHANGED evalVars

\* Line 259 false: the next iteration.
LogEvalNotDue ==
    /\ fn = "train" /\ ~fn_out.done /\ TrainVal.pc = "log_eval"
    /\ ~log_eval_due(TrainVal.step, fn_in.log_eval_every)
    /\ fn_out' = [fn_out EXCEPT !.val.pc = "loop", !.val.step = @ + 1]
    /\ UNCHANGED <<fn, fn_in>>
    /\ UNCHANGED evalVars

\* Lines 267-273: range(1, num_train_steps+1) is exhausted.
TrainingComplete ==
    /\ fn = "train" /\ ~fn_out.done /\ TrainVal.pc = "loop"
    /\ TrainVal.step = fn_in.num_train_steps + 1
    /\ fn_out' = [fn_out EXCEPT !.val.pc = "trained"]
    /\ UNCHANGED <<fn, fn_in>>
    /\ UNCHANGED evalVars

\* Lines 324-326: export_inference_graph('image_tensor', configproto,
\* model_dir, saved_model_dir) is entered, with the checkpoints that
\* model_dir holds.
ExportInferenceGraph ==
    /\ fn = "train" /\ ~fn_out.done /\ TrainVal.pc = "trained"
    /\ fn_out' = [fn_out EXCEPT !.done = TRUE, !.val.pc = "export"]
    /\ UNCHANGED <<fn, fn_in>>
    /\ UNCHANGED evalVars

NextTrain ==
    \/ DistTrainStep
    \/ LogTrain
    \/ ManagerSave
    \/ Evaluate
    \/ LogEvalNotDue
    \/ TrainingComplete
    \/ ExportInferenceGraph

SpecTrain == InitTrain /\ [][NextTrain]_vars

\* The calls the claim has step s make.
StepCalls(s, every) ==
    <<[op |-> "_dist_train_step", step |-> s]>> \o
    (IF s % every = 0
     THEN <<[op |-> "manager.save", step |-> s], [op |-> "evaluate", step |-> s]>>
     ELSE <<>>)

RECURSIVE LoopCalls(_, _)
LoopCalls(n, every) ==
    IF n = 0 THEN <<>> ELSE LoopCalls(n - 1, every) \o StepCalls(n, every)

IsPrefix(s, t) == Len(s) <= Len(t) /\ s = SubSeq(t, 1, Len(s))

\* C22: the loop runs exactly num_train_steps training steps; each step s
\* with s % log_eval_every = 0 is followed by a checkpoint save and then an
\* evaluation, both before step s+1; no other step saves or evaluates.
C22_SaveThenEval ==
    fn = "train" =>
        LET n == fn_in.num_train_steps
            every == fn_in.log_eval_every
        IN  /\ IsPrefix(TrainVal.calls, LoopCalls(n, every))
            /\ TrainVal.pc = "loop" => TrainVal.calls = LoopCalls(TrainVal.step - 1, every)
            /\ TrainVal.pc \in {"trained", "export"} =>
                  /\ TrainVal.calls = LoopCalls(n, every)
                  /\ TrainVal.global_step = n

C22_Witness ==
    /\ fn = "train"
    /\ TrainVal.pc = "trained"
    /\ TrainVal.save_counter >= 2
    /\ fn_in.num_train_steps % fn_in.log_eval_every # 0

\* C23: when the export begins after a loop of at least one step, the most
\* recently saved checkpoint holds the weights of global step
\* num_train_steps.
C23_FinalStepCheckpointed ==
    (fn = "train" /\ TrainVal.pc = "export" /\ fn_in.num_train_steps >= 1) =>
        /\ TrainVal.checkpoints # <<>>
        /\ Last(TrainVal.checkpoints).global_step = fn_in.num_train_steps

====
